---- MODULE Spec2Model ----
(***************************************************************************)
(* A model of src/emotional_simulation.py: a straight-line Python script   *)
(* that integrates four ODE models with scipy's odeint on numpy.linspace   *)
(* grids and computes two closed-form equilibria.                          *)
(*                                                                         *)
(* Numbers.  A Python float is modelled as a record [n, d]: the exact      *)
(* rational n/d in lowest terms with d > 0, or one of the three non-finite *)
(* values d = 0: NaN (n = 0), +inf (n = 1), -inf (n = -1).  Arithmetic on  *)
(* finite values is exact; rounding of IEEE doubles is not modelled, so    *)
(* equalities between computed values are equalities of real numbers.      *)
(***************************************************************************)
EXTENDS Integers, Sequences, FiniteSets, TLC

VARIABLES
    pc,             \* label of the next statement of the script ("L<line>")
    err,            \* "none", or the exception that ended the script
    bound,          \* the module-level names that are currently bound
    k, y0, t, y_linear,                          \* Model I   (lines 15-20)
    c, y0_forced, equilibrium, y_forced,         \* Model II  (lines 43-48)
    k_nonlin, a, y0_values, t_long, stable_eq,   \* Model III (lines 71-75)
    it,             \* position of the for loop's iterator (line 79)
    y_sol,          \* lines 80 and 111
    params, initial_state, solution, x_sol,      \* Model IV  (lines 105-110)
    requests,       \* the literal arguments of the two linspace calls
    calls,          \* history: every odeint invocation, in order
    events,         \* history: <<scenario, stage>> of every statement run
    probe           \* the last pure-function application (SpecFn only)

vars == <<pc, err, bound, k, y0, t, y_linear, c, y0_forced, equilibrium,
          y_forced, k_nonlin, a, y0_values, t_long, stable_eq, it, y_sol,
          params, initial_state, solution, x_sol, requests, calls, events,
          probe>>

(***************************************************************************)
(* Bounds of the model.                                                    *)
(***************************************************************************)
\* Resolution of the integrator's stored states: multiples of 1/Scale.
Scale == 100
\* Magnitude above which a stored state overflows to +-inf.
MaxMag == 100
\* SpecFn: linspace is applied to start, stop in 0..MaxEnd, num in -1..MaxCount.
MaxEnd == 3
MaxCount == 5
\* SpecFn: coefficients are the rationals p/q with |p| <= MaxNum, 1 <= q <= MaxDen.
MaxNum == 2
MaxDen == 2

(***************************************************************************)
(* Floats.                                                                 *)
(***************************************************************************)
Abs(i) == IF i < 0 THEN -i ELSE i
Sign(i) == IF i < 0 THEN -1 ELSE IF i > 0 THEN 1 ELSE 0

RECURSIVE GCD(_, _)
GCD(i, j) == IF j = 0 THEN i ELSE GCD(j, i % j)

\* The float n/d, in lowest terms; d = 0 gives NaN or an infinity.
F(n, d) ==
    IF d = 0 THEN [n |-> Sign(n), d |-> 0]
    ELSE LET g == GCD(Abs(n), Abs(d))
             s == Sign(d)
         IN  [n |-> (s * n) \div g, d |-> (s * d) \div g]

Zero == F(0, 1)
One == F(1, 1)
NaN == F(0, 0)
Inf == F(1, 0)

IsFinite(x) == x.d # 0
IsNaN(x) == x.d = 0 /\ x.n = 0
IsZero(x) == x.d # 0 /\ x.n = 0

FNeg(x) == [n |-> -x.n, d |-> x.d]

FMul(x, y) == F(x.n * y.n, x.d * y.d)

FAdd(x, y) ==
    IF IsFinite(x) /\ IsFinite(y)
    THEN LET l == (x.d * y.d) \div GCD(x.d, y.d)
         IN  F(x.n * (l \div x.d) + y.n * (l \div y.d), l)
    ELSE IF IsNaN(x) \/ IsNaN(y) THEN NaN
    ELSE IF IsFinite(y) THEN x
    ELSE IF IsFinite(x) THEN y
    ELSE IF x.n = y.n THEN x ELSE NaN

FSub(x, y) == FAdd(x, FNeg(y))

\* x / y for a divisor that is not zero: x * (1/y).
FDiv(x, y) == FMul(x, F(y.d, y.n))

\* x < y; false when either is NaN, as in IEEE 754.
FLt(x, y) ==
    IF IsNaN(x) \/ IsNaN(y) THEN FALSE
    ELSE IF IsFinite(x) /\ IsFinite(y) THEN x.n * y.d < y.n * x.d
    ELSE IF IsFinite(x) THEN y.n = 1
    ELSE IF IsFinite(y) THEN x.n = -1
    ELSE x.n < y.n

\* Python's float / float raises ZeroDivisionError on a zero divisor.
DivRaises(x, y) == IsZero(y)

(***************************************************************************)
(* The four right-hand sides (lines 11-12, 39-40, 67-68, 98-102).          *)
(***************************************************************************)
linear_decay(y, tt, kk) == FMul(FNeg(kk), y)

\* Variant: the forcing term enters with the wrong sign.
forced_response_minus_c(y, tt, kk, cc) == FSub(FMul(FNeg(kk), y), cc)

forced_response(y, tt, kk, cc) == FAdd(FMul(FNeg(kk), y), cc)

nonlinear_regulation(y, tt, kk, aa) ==
    FAdd(FMul(FNeg(kk), y), FMul(FMul(aa, y), FSub(One, y)))

\* Variant: dydt is computed from x instead of y.
coupled_system_y_from_x(z, tt, aa, bb, cc) ==
    <<FAdd(FMul(FNeg(aa), z[1]), FMul(bb, z[2])), FMul(FNeg(cc), z[1])>>

coupled_system(z, tt, aa, bb, cc) ==
    LET x == z[1]
        y == z[2]
        dxdt == FAdd(FMul(FNeg(aa), x), FMul(bb, y))
        dydt == FMul(FNeg(cc), y)
    IN  <<dxdt, dydt>>

(***************************************************************************)
(* The two closed-form equilibria the script computes (lines 45 and 75).   *)
(* Both divide Python floats, which raises ZeroDivisionError when the      *)
(* divisor is zero; the value is defined for the other divisors.           *)
(***************************************************************************)
equilibrium_value(cc, kk) == FDiv(cc, kk)

stable_eq_value(kk, aa) == FSub(One, FDiv(kk, aa))

(***************************************************************************)
(* numpy.linspace(start, stop, num), endpoint=True (called at lines 17 and *)
(* 74): num < 0 raises ValueError; otherwise the samples are               *)
(* start + i * step for i = 0..num-1 with step = (stop - start)/(num - 1)  *)
(* (or stop - start when num - 1 is not positive), and when num > 1 the    *)
(* last sample is overwritten with stop.                                   *)
(***************************************************************************)
LinspaceRaises(start, stop, num) == num < 0

\* Variant: the step is computed as for endpoint=False.
linspace_step_over_num(start, stop, num) ==
    [i \in 1..num |->
        IF num > 1 /\ i = num THEN F(stop, 1)
        ELSE FAdd(FMul(F(i - 1, 1), F(stop - start, num)), F(start, 1))]

linspace(start, stop, num) ==
    LET div == num - 1
        delta == stop - start
        step == IF div > 0 THEN F(delta, div) ELSE F(delta, 1)
    IN  [i \in 1..num |->
            IF num > 1 /\ i = num THEN F(stop, 1)
            ELSE FAdd(FMul(F(i - 1, 1), step), F(start, 1))]

(***************************************************************************)
(* scipy.integrate.odeint(func, y0, t, args) (called at lines 20, 48, 80   *)
(* and 109): the result has one row per element of t, each row as long as  *)
(* y0; row 1 is y0 and row i+1 is the state advanced from row i over       *)
(* [t[i], t[i+1]] by the right-hand side func.  The advance is modelled as *)
(* one explicit Euler step whose result is stored with finite precision.   *)
(***************************************************************************)
\* The callback func(y, t, *args), by the name of the function passed.
rhs(func, z, tt, args) ==
    CASE func = "linear_decay" -> <<linear_decay(z[1], tt, args[1])>>
      [] func = "forced_response" ->
            <<forced_response(z[1], tt, args[1], args[2])>>
      [] func = "nonlinear_regulation" ->
            <<nonlinear_regulation(z[1], tt, args[1], args[2])>>
      [] func = "coupled_system" ->
            coupled_system(z, tt, args[1], args[2], args[3])

Quantize(x) ==
    IF ~IsFinite(x) THEN x
    ELSE IF Abs(x.n) > MaxMag * x.d THEN F(Sign(x.n), 0)
    ELSE F((x.n * Scale) \div x.d, Scale)

Advance(func, z, t0, t1, args) ==
    LET h == FSub(t1, t0)
        dz == rhs(func, z, t0, args)
    IN  [i \in 1..Len(z) |-> Quantize(FAdd(z[i], FMul(h, Quantize(dz[i]))))]

\* The rows for t[lo..hi], the row for t[lo] being z.  The rows are produced
\* left to right, each from the one before it; the range is split in halves
\* only to keep the evaluation shallow.
RECURSIVE Rows(_, _, _, _, _, _)
Rows(func, z, tgrid, args, lo, hi) ==
    IF lo = hi THEN <<z>>
    ELSE LET mid == (lo + hi) \div 2
             left == Rows(func, z, tgrid, args, lo, mid)
             zn == Advance(func, left[Len(left)], tgrid[mid], tgrid[mid + 1], args)
         IN  left \o Rows(func, zn, tgrid, args, mid + 1, hi)

\* Variant: the row of the initial state is left out of the result.
odeint_without_initial_row(func, y0vec, tgrid, args) ==
    IF Len(tgrid) = 0 THEN <<>>
    ELSE Tail(Rows(func, y0vec, tgrid, args, 1, Len(tgrid)))

odeint(func, y0vec, tgrid, args) ==
    IF Len(tgrid) = 0 THEN <<>> ELSE Rows(func, y0vec, tgrid, args, 1, Len(tgrid))

\* solution[:, j]
Column(rows, j) == [i \in 1..Len(rows) |-> rows[i][j]]

(***************************************************************************)
(* The script.  Its literals are the inputs of the model: each assignment  *)
(* of a literal draws from a small set that holds the value written in the *)
(* source (listed first) and the other values the checked properties are   *)
(* about.                                                                  *)
(***************************************************************************)
K_inputs == {F(1, 2), Zero, NaN}                      \* line 15: 0.5
Y0_inputs == {F(10, 1)}                               \* line 16: 10.0
T_requests ==                                         \* line 17: (0, 20, 100)
    {<<0, 20, 100>>, <<0, 20, 1>>, <<20, 0, 3>>, <<0, 20, -1>>}
C_inputs == {F(2, 1), Zero}                           \* line 43: 2.0
Y0_forced_inputs == {Zero}                            \* line 44: 0.0
K_nonlin_inputs == {F(1, 5), Zero}                    \* line 71: 0.2
A_inputs == {F(4, 5), Zero}                           \* line 72: 0.8
Y0_values_inputs == {<<F(1, 10), F(1, 2), F(6, 5)>>}  \* line 73: [0.1, 0.5, 1.2]
T_long_requests == {<<0, 30, 100>>, <<0, 30, 2>>}     \* line 74: (0, 30, 100)
Params_inputs ==                                      \* line 105: (0.5, 0.5, 0.2)
    {<<F(1, 2), F(1, 2), F(1, 5)>>, <<F(1, 2), Zero, Inf>>}
Initial_state_inputs == {<<F(5, 1), F(5, 1)>>}        \* line 106: [5.0, 5.0]

\* The statements of the module in the order Python executes them; the body
\* of the for loop (lines 80-81) is entered and left from line 79.
\* Variant: Model II is integrated (line 48) before its equilibrium is
\* computed (line 45).
Order_integration_first ==
    <<"L15", "L16", "L17", "L20", "L23",
      "L43", "L44", "L48", "L45", "L51",
      "L71", "L72", "L73", "L74", "L75", "L79", "L83",
      "L105", "L106", "L109", "L110", "L111", "L114", "done">>

Order ==
    <<"L15", "L16", "L17", "L20", "L23",
      "L43", "L44", "L45", "L48", "L51",
      "L71", "L72", "L73", "L74", "L75", "L79", "L83",
      "L105", "L106", "L109", "L110", "L111", "L114", "done">>

After(label) == Order[1 + CHOOSE i \in 1..Len(Order) - 1 : Order[i] = label]

Init ==
    /\ pc = Order[1]
    /\ err = "none"
    /\ bound = {}
    /\ k = Zero /\ y0 = Zero /\ t = <<>> /\ y_linear = <<>>
    /\ c = Zero /\ y0_forced = Zero /\ equilibrium = Zero /\ y_forced = <<>>
    /\ k_nonlin = Zero /\ a = Zero /\ y0_values = <<>> /\ t_long = <<>>
    /\ stable_eq = Zero
    /\ it = 0
    /\ y_sol = <<>>
    /\ params = <<>> /\ initial_state = <<>> /\ solution = <<>> /\ x_sol = <<>>
    /\ requests = [t |-> <<0, 0, 0>>, t_long |-> <<0, 0, 0>>]
    /\ calls = <<>>
    /\ events = <<>>
    /\ probe = [fn |-> "none"]

\* line 15: k = 0.5
Line15 ==
    /\ pc = "L15"
    /\ \E v \in K_inputs : k' = v
    /\ bound' = bound \cup {"k"}
    /\ events' = Append(events, <<"I", "parameters">>)
    /\ pc' = After("L15")
    /\ UNCHANGED <<err, y0, t, y_linear, c, y0_forced, equilibrium,
                   y_forced, k_nonlin, a, y0_values, t_long, stable_eq, it,
                   y_sol, params, initial_state, solution, x_sol, requests,
                   calls, probe>>

\* line 16: y0 = 10.0
Line16 ==
    /\ pc = "L16"
    /\ \E v \in Y0_inputs : y0' = v
    /\ bound' = bound \cup {"y0"}
    /\ events' = Append(events, <<"I", "parameters">>)
    /\ pc' = After("L16")
    /\ UNCHANGED <<err, k, t, y_linear, c, y0_forced, equilibrium, y_forced,
                   k_nonlin, a, y0_values, t_long, stable_eq, it, y_sol,
                   params, initial_state, solution, x_sol, requests, calls,
                   probe>>

\* line 17: t = np.linspace(0, 20, 100)
Line17 ==
    /\ pc = "L17"
    /\ \E r \in T_requests :
          /\ requests' = [requests EXCEPT !.t = r]
          /\ IF LinspaceRaises(r[1], r[2], r[3])
             THEN /\ err' = "ValueError"
                  /\ pc' = "raised"
                  /\ UNCHANGED <<t, bound, events>>
             ELSE /\ t' = linspace(r[1], r[2], r[3])
                  /\ bound' = bound \cup {"t"}
                  /\ events' = Append(events, <<"I", "grid">>)
                  /\ pc' = After("L17")
                  /\ UNCHANGED err
    /\ UNCHANGED <<k, y0, y_linear, c, y0_forced, equilibrium, y_forced,
                   k_nonlin, a, y0_values, t_long, stable_eq, it, y_sol,
                   params, initial_state, solution, x_sol, calls, probe>>

\* line 20: y_linear = odeint(linear_decay, y0, t, args=(k,))
Line20 ==
    /\ pc = "L20"
    /\ LET out == odeint("linear_decay", <<y0>>, t, <<k>>)
       IN  /\ y_linear' = out
           /\ calls' = Append(calls, [func |-> "linear_decay", y0 |-> <<y0>>,
                                      t |-> t, args |-> <<k>>,
                                      out |-> out])
    /\ bound' = bound \cup {"y_linear"}
    /\ events' = Append(events, <<"I", "integration">>)
    /\ pc' = After("L20")
    /\ UNCHANGED <<err, k, y0, t, c, y0_forced, equilibrium, y_forced,
                   k_nonlin, a, y0_values, t_long, stable_eq, it, y_sol,
                   params, initial_state, solution, x_sol, requests, probe>>

\* lines 23-31: Model I is plotted and shown
Line23 ==
    /\ pc = "L23"
    /\ events' = Append(events, <<"I", "render">>)
    /\ pc' = After("L23")
    /\ UNCHANGED <<err, bound, k, y0, t, y_linear, c, y0_forced,
                   equilibrium, y_forced, k_nonlin, a, y0_values, t_long,
                   stable_eq, it, y_sol, params, initial_state, solution,
                   x_sol, requests, calls, probe>>

\* line 43: c = 2.0
Line43 ==
    /\ pc = "L43"
    /\ \E v \in C_inputs : c' = v
    /\ bound' = bound \cup {"c"}
    /\ events' = Append(events, <<"II", "parameters">>)
    /\ pc' = After("L43")
    /\ UNCHANGED <<err, k, y0, t, y_linear, y0_forced, equilibrium,
                   y_forced, k_nonlin, a, y0_values, t_long, stable_eq, it,
                   y_sol, params, initial_state, solution, x_sol, requests,
                   calls, probe>>

\* line 44: y0_forced = 0.0
Line44 ==
    /\ pc = "L44"
    /\ \E v \in Y0_forced_inputs : y0_forced' = v
    /\ bound' = bound \cup {"y0_forced"}
    /\ events' = Append(events, <<"II", "parameters">>)
    /\ pc' = After("L44")
    /\ UNCHANGED <<err, k, y0, t, y_linear, c, equilibrium, y_forced,
                   k_nonlin, a, y0_values, t_long, stable_eq, it, y_sol,
                   params, initial_state, solution, x_sol, requests, calls,
                   probe>>

\* line 45: equilibrium = c / k
Line45 ==
    /\ pc = "L45"
    /\ IF DivRaises(c, k)
       THEN /\ err' = "ZeroDivisionError"
            /\ pc' = "raised"
            /\ UNCHANGED <<equilibrium, bound, events>>
       ELSE /\ equilibrium' = equilibrium_value(c, k)
            /\ bound' = bound \cup {"equilibrium"}
            /\ events' = Append(events, <<"II", "equilibrium">>)
            /\ pc' = After("L45")
            /\ UNCHANGED err
    /\ UNCHANGED <<k, y0, t, y_linear, c, y0_forced, y_forced, k_nonlin, a,
                   y0_values, t_long, stable_eq, it, y_sol, params,
                   initial_state, solution, x_sol, requests, calls, probe>>

\* line 48: y_forced = odeint(forced_response, y0_forced, t, args=(k, c))
Line48 ==
    /\ pc = "L48"
    /\ LET out == odeint("forced_response", <<y0_forced>>, t, <<k, c>>)
       IN  /\ y_forced' = out
           /\ calls' = Append(calls, [func |-> "forced_response", y0 |-> <<y0_forced>>,
                                      t |-> t, args |-> <<k, c>>,
                                      out |-> out])
    /\ bound' = bound \cup {"y_forced"}
    /\ events' = Append(events, <<"II", "integration">>)
    /\ pc' = After("L48")
    /\ UNCHANGED <<err, k, y0, t, y_linear, c, y0_forced, equilibrium,
                   k_nonlin, a, y0_values, t_long, stable_eq, it, y_sol,
                   params, initial_state, solution, x_sol, requests, probe>>

\* lines 51-59: Model II is plotted and shown
Line51 ==
    /\ pc = "L51"
    /\ events' = Append(events, <<"II", "render">>)
    /\ pc' = After("L51")
    /\ UNCHANGED <<err, bound, k, y0, t, y_linear, c, y0_forced,
                   equilibrium, y_forced, k_nonlin, a, y0_values, t_long,
                   stable_eq, it, y_sol, params, initial_state, solution,
                   x_sol, requests, calls, probe>>

\* line 71: k_nonlin = 0.2
Line71 ==
    /\ pc = "L71"
    /\ \E v \in K_nonlin_inputs : k_nonlin' = v
    /\ bound' = bound \cup {"k_nonlin"}
    /\ events' = Append(events, <<"III", "parameters">>)
    /\ pc' = After("L71")
    /\ UNCHANGED <<err, k, y0, t, y_linear, c, y0_forced, equilibrium,
                   y_forced, a, y0_values, t_long, stable_eq, it, y_sol,
                   params, initial_state, solution, x_sol, requests, calls,
                   probe>>

\* line 72: a = 0.8
Line72 ==
    /\ pc = "L72"
    /\ \E v \in A_inputs : a' = v
    /\ bound' = bound \cup {"a"}
    /\ events' = Append(events, <<"III", "parameters">>)
    /\ pc' = After("L72")
    /\ UNCHANGED <<err, k, y0, t, y_linear, c, y0_forced, equilibrium,
                   y_forced, k_nonlin, y0_values, t_long, stable_eq, it,
                   y_sol, params, initial_state, solution, x_sol, requests,
                   calls, probe>>

\* line 73: y0_values = [0.1, 0.5, 1.2]
Line73 ==
    /\ pc = "L73"
    /\ \E v \in Y0_values_inputs : y0_values' = v
    /\ bound' = bound \cup {"y0_values"}
    /\ events' = Append(events, <<"III", "parameters">>)
    /\ pc' = After("L73")
    /\ UNCHANGED <<err, k, y0, t, y_linear, c, y0_forced, equilibrium,
                   y_forced, k_nonlin, a, t_long, stable_eq, it, y_sol,
                   params, initial_state, solution, x_sol, requests, calls,
                   probe>>

\* line 74: t_long = np.linspace(0, 30, 100)
Line74 ==
    /\ pc = "L74"
    /\ \E r \in T_long_requests :
          /\ requests' = [requests EXCEPT !.t_long = r]
          /\ IF LinspaceRaises(r[1], r[2], r[3])
             THEN /\ err' = "ValueError"
                  /\ pc' = "raised"
                  /\ UNCHANGED <<t_long, bound, events>>
             ELSE /\ t_long' = linspace(r[1], r[2], r[3])
                  /\ bound' = bound \cup {"t_long"}
                  /\ events' = Append(events, <<"III", "grid">>)
                  /\ pc' = After("L74")
                  /\ UNCHANGED err
    /\ UNCHANGED <<k, y0, t, y_linear, c, y0_forced, equilibrium, y_forced,
                   k_nonlin, a, y0_values, stable_eq, it, y_sol, params,
                   initial_state, solution, x_sol, calls, probe>>

\* line 75: stable_eq = 1 - (k_nonlin/a)
Line75 ==
    /\ pc = "L75"
    /\ IF DivRaises(k_nonlin, a)
       THEN /\ err' = "ZeroDivisionError"
            /\ pc' = "raised"
            /\ UNCHANGED <<stable_eq, bound, events>>
       ELSE /\ stable_eq' = stable_eq_value(k_nonlin, a)
            /\ bound' = bound \cup {"stable_eq"}
            /\ events' = Append(events, <<"III", "equilibrium">>)
            /\ pc' = After("L75")
            /\ UNCHANGED err
    /\ UNCHANGED <<k, y0, t, y_linear, c, y0_forced, equilibrium, y_forced,
                   k_nonlin, a, y0_values, t_long, it, y_sol, params,
                   initial_state, solution, x_sol, requests, calls, probe>>

\* Variant: the loop leaves before the last element of the list.
Line79_stops_early ==
    /\ pc = "L79"
    /\ IF it < Len(y0_values) - 1
       THEN /\ y0' = y0_values[it + 1]
            /\ it' = it + 1
            /\ pc' = "L80"
       ELSE /\ pc' = After("L79")
            /\ UNCHANGED <<y0, it>>
    /\ UNCHANGED <<err, bound, k, t, y_linear, c, y0_forced, equilibrium,
                   y_forced, k_nonlin, a, y0_values, t_long, stable_eq,
                   y_sol, params, initial_state, solution, x_sol, requests,
                   calls, events, probe>>

\* line 79: for y0 in y0_values -- binds the module-level name y0 to the
\* next element, or leaves the loop when the list is exhausted.
Line79 ==
    /\ pc = "L79"
    /\ IF it < Len(y0_values)
       THEN /\ y0' = y0_values[it + 1]
            /\ it' = it + 1
            /\ pc' = "L80"
       ELSE /\ pc' = After("L79")
            /\ UNCHANGED <<y0, it>>
    /\ UNCHANGED <<err, bound, k, t, y_linear, c, y0_forced, equilibrium,
                   y_forced, k_nonlin, a, y0_values, t_long, stable_eq,
                   y_sol, params, initial_state, solution, x_sol, requests,
                   calls, events, probe>>

\* line 80: y_sol = odeint(nonlinear_regulation, y0, t_long, args=(k_nonlin, a))
Line80 ==
    /\ pc = "L80"
    /\ LET out == odeint("nonlinear_regulation", <<y0>>, t_long, <<k_nonlin, a>>)
       IN  /\ y_sol' = out
           /\ calls' = Append(calls, [func |-> "nonlinear_regulation", y0 |-> <<y0>>,
                                      t |-> t_long, args |-> <<k_nonlin, a>>,
                                      out |-> out])
    /\ bound' = bound \cup {"y_sol"}
    /\ events' = Append(events, <<"III", "integration">>)
    /\ pc' = "L81"
    /\ UNCHANGED <<err, k, y0, t, y_linear, c, y0_forced, equilibrium,
                   y_forced, k_nonlin, a, y0_values, t_long, stable_eq, it,
                   params, initial_state, solution, x_sol, requests, probe>>

\* line 81: the trajectory just computed is plotted; back to the loop head
Line81 ==
    /\ pc = "L81"
    /\ events' = Append(events, <<"III", "render">>)
    /\ pc' = "L79"
    /\ UNCHANGED <<err, bound, k, y0, t, y_linear, c, y0_forced,
                   equilibrium, y_forced, k_nonlin, a, y0_values, t_long,
                   stable_eq, it, y_sol, params, initial_state, solution,
                   x_sol, requests, calls, probe>>

\* lines 83-89: Model III is annotated and shown
Line83 ==
    /\ pc = "L83"
    /\ events' = Append(events, <<"III", "render">>)
    /\ pc' = After("L83")
    /\ UNCHANGED <<err, bound, k, y0, t, y_linear, c, y0_forced,
                   equilibrium, y_forced, k_nonlin, a, y0_values, t_long,
                   stable_eq, it, y_sol, params, initial_state, solution,
                   x_sol, requests, calls, probe>>

\* line 105: params = (0.5, 0.5, 0.2)
Line105 ==
    /\ pc = "L105"
    /\ \E v \in Params_inputs : params' = v
    /\ bound' = bound \cup {"params"}
    /\ events' = Append(events, <<"IV", "parameters">>)
    /\ pc' = After("L105")
    /\ UNCHANGED <<err, k, y0, t, y_linear, c, y0_forced, equilibrium,
                   y_forced, k_nonlin, a, y0_values, t_long, stable_eq, it,
                   y_sol, initial_state, solution, x_sol, requests, calls,
                   probe>>

\* line 106: initial_state = [5.0, 5.0]
Line106 ==
    /\ pc = "L106"
    /\ \E v \in Initial_state_inputs : initial_state' = v
    /\ bound' = bound \cup {"initial_state"}
    /\ events' = Append(events, <<"IV", "parameters">>)
    /\ pc' = After("L106")
    /\ UNCHANGED <<err, k, y0, t, y_linear, c, y0_forced, equilibrium,
                   y_forced, k_nonlin, a, y0_values, t_long, stable_eq, it,
                   y_sol, params, solution, x_sol, requests, calls, probe>>

\* line 109: solution = odeint(coupled_system, initial_state, t_long, args=params)
Line109 ==
    /\ pc = "L109"
    /\ LET out == odeint("coupled_system", initial_state, t_long, params)
       IN  /\ solution' = out
           /\ calls' = Append(calls, [func |-> "coupled_system", y0 |-> initial_state,
                                      t |-> t_long, args |-> params,
                                      out |-> out])
    /\ bound' = bound \cup {"solution"}
    /\ events' = Append(events, <<"IV", "integration">>)
    /\ pc' = After("L109")
    /\ UNCHANGED <<err, k, y0, t, y_linear, c, y0_forced, equilibrium,
                   y_forced, k_nonlin, a, y0_values, t_long, stable_eq, it,
                   y_sol, params, initial_state, x_sol, requests, probe>>

\* line 110: x_sol = solution[:, 0]
Line110 ==
    /\ pc = "L110"
    /\ x_sol' = Column(solution, 1)
    /\ bound' = bound \cup {"x_sol"}
    /\ events' = Append(events, <<"IV", "extract">>)
    /\ pc' = After("L110")
    /\ UNCHANGED <<err, k, y0, t, y_linear, c, y0_forced, equilibrium,
                   y_forced, k_nonlin, a, y0_values, t_long, stable_eq, it,
                   y_sol, params, initial_state, solution, requests, calls,
                   probe>>

\* line 111: y_sol = solution[:, 1]
Line111 ==
    /\ pc = "L111"
    /\ y_sol' = Column(solution, 2)
    /\ bound' = bound \cup {"y_sol"}
    /\ events' = Append(events, <<"IV", "extract">>)
    /\ pc' = After("L111")
    /\ UNCHANGED <<err, k, y0, t, y_linear, c, y0_forced, equilibrium,
                   y_forced, k_nonlin, a, y0_values, t_long, stable_eq, it,
                   params, initial_state, solution, x_sol, requests, calls,
                   probe>>

\* lines 114-122: Model IV is plotted and shown
Line114 ==
    /\ pc = "L114"
    /\ events' = Append(events, <<"IV", "render">>)
    /\ pc' = After("L114")
    /\ UNCHANGED <<err, bound, k, y0, t, y_linear, c, y0_forced,
                   equilibrium, y_forced, k_nonlin, a, y0_values, t_long,
                   stable_eq, it, y_sol, params, initial_state, solution,
                   x_sol, requests, calls, probe>>

Next ==
    \/ Line15 \/ Line16 \/ Line17 \/ Line20 \/ Line23
    \/ Line43 \/ Line44 \/ Line45 \/ Line48 \/ Line51
    \/ Line71 \/ Line72 \/ Line73 \/ Line74 \/ Line75
    \/ Line79 \/ Line80 \/ Line81 \/ Line83
    \/ Line105 \/ Line106 \/ Line109 \/ Line110 \/ Line111 \/ Line114

Spec == Init /\ [][Next]_vars

(***************************************************************************)
(* SpecFn: the pure functions of the script applied to inputs drawn from   *)
(* bounded sets.  probe records the last application: the function, its    *)
(* inputs and what it returned.  Each behaviour applies one function once. *)
(***************************************************************************)
scriptVars == <<pc, err, bound, k, y0, t, y_linear, c, y0_forced, equilibrium,
                y_forced, k_nonlin, a, y0_values, t_long, stable_eq, it, y_sol,
                params, initial_state, solution, x_sol, requests, calls, events>>

\* The finite coefficients tried: the small rationals and the script's own.
Coefs ==
    {F(p, q) : p \in -MaxNum..MaxNum, q \in 1..MaxDen}
        \cup {F(1, 2), F(2, 1), F(1, 5), F(4, 5)}
Times == {Zero, F(20, 1)}
\* The linspace requests tried: the small ones and the script's two.
GridRequests ==
    ((0..MaxEnd) \X (0..MaxEnd) \X (-1..MaxCount))
        \cup {<<0, 20, 100>>, <<0, 30, 100>>}
\* The coupled system is tried on these coefficients and state components.
CoupledCoefs == {Zero, F(1, 2), F(-1, 1)}
StateVals == {Zero, F(5, 1), F(-1, 1)}

\* np.linspace(start, stop, num)
ApplyLinspace ==
    /\ probe.fn = "none"
    /\ \E r \in GridRequests :
          probe' = [fn |-> "linspace", start |-> r[1], stop |-> r[2],
                    num |-> r[3],
                    raised |-> LinspaceRaises(r[1], r[2], r[3]),
                    out |-> IF LinspaceRaises(r[1], r[2], r[3]) THEN <<>>
                            ELSE linspace(r[1], r[2], r[3])]
    /\ UNCHANGED scriptVars

\* equilibrium = c / k, then forced_response at it
ApplyForced ==
    /\ probe.fn = "none"
    /\ \E kk \in Coefs, cc \in Coefs, tt \in Times :
          probe' = IF DivRaises(cc, kk)
                   THEN [fn |-> "forced_response", k |-> kk, c |-> cc,
                         t |-> tt, raised |-> TRUE]
                   ELSE [fn |-> "forced_response", k |-> kk, c |-> cc,
                         t |-> tt, raised |-> FALSE,
                         eq |-> equilibrium_value(cc, kk),
                         out |-> forced_response(equilibrium_value(cc, kk),
                                                 tt, kk, cc)]
    /\ UNCHANGED scriptVars

\* stable_eq = 1 - (k_nonlin/a), then nonlinear_regulation at it and at 0
ApplyNonlinear ==
    /\ probe.fn = "none"
    /\ \E kk \in Coefs, aa \in Coefs, tt \in Times :
          probe' = IF DivRaises(kk, aa)
                   THEN [fn |-> "nonlinear_regulation", k |-> kk, a |-> aa,
                         t |-> tt, raised |-> TRUE,
                         out0 |-> nonlinear_regulation(Zero, tt, kk, aa)]
                   ELSE [fn |-> "nonlinear_regulation", k |-> kk, a |-> aa,
                         t |-> tt, raised |-> FALSE,
                         eq |-> stable_eq_value(kk, aa),
                         out |-> nonlinear_regulation(stable_eq_value(kk, aa),
                                                      tt, kk, aa),
                         out0 |-> nonlinear_regulation(Zero, tt, kk, aa)]
    /\ UNCHANGED scriptVars

\* coupled_system at two states that agree on y, with the same c, and at a
\* third that differs from the first in y alone
ApplyCoupled ==
    /\ probe.fn = "none"
    /\ \E a1 \in CoupledCoefs, b1 \in CoupledCoefs, a2 \in CoupledCoefs,
          b2 \in CoupledCoefs, cc \in CoupledCoefs, tt \in Times,
          x1 \in StateVals, x2 \in StateVals, y \in StateVals,
          yalt \in StateVals :
          probe' = [fn |-> "coupled_system", t |-> tt, c |-> cc, y |-> y,
                    yalt |-> yalt,
                    a1 |-> a1, b1 |-> b1, x1 |-> x1,
                    a2 |-> a2, b2 |-> b2, x2 |-> x2,
                    out1 |-> coupled_system(<<x1, y>>, tt, a1, b1, cc),
                    out2 |-> coupled_system(<<x2, y>>, tt, a2, b2, cc),
                    outalt |-> coupled_system(<<x1, yalt>>, tt, a1, b1, cc)]
    /\ UNCHANGED scriptVars

\* Two integrations of the coupled system that agree on the initial y, on c
\* and on the time grid.
OdeintGrids == {<<0, 30, 100>>, <<0, 3, 4>>}
OdeintCoefs == {F(1, 2), Zero, F(-1, 1)}

ApplyOdeint ==
    /\ probe.fn = "none"
    /\ \E g \in OdeintGrids, cc \in {F(1, 5), F(1, 2)},
          y \in {F(5, 1), One}, a1 \in {F(1, 2), F(1, 5)},
          b1 \in {F(1, 2), F(1, 5)}, a2 \in OdeintCoefs, b2 \in OdeintCoefs,
          x2 \in {F(5, 1), Zero} :
          LET tg == linspace(g[1], g[2], g[3])
          IN  probe' = [fn |-> "odeint", grid |-> g, c |-> cc, y |-> y,
                        a1 |-> a1, b1 |-> b1, x1 |-> F(5, 1),
                        a2 |-> a2, b2 |-> b2, x2 |-> x2,
                        out1 |-> odeint("coupled_system", <<F(5, 1), y>>, tg,
                                        <<a1, b1, cc>>),
                        out2 |-> odeint("coupled_system", <<x2, y>>, tg,
                                        <<a2, b2, cc>>)]
    /\ UNCHANGED scriptVars

NextFn ==
    \/ ApplyLinspace \/ ApplyForced \/ ApplyNonlinear \/ ApplyCoupled
    \/ ApplyOdeint

SpecFn == Init /\ [][NextFn]_vars

(***************************************************************************)
(* Properties of the script (checked under Spec).                          *)
(***************************************************************************)
\* The result the analysis is specified to give when there is no finite
\* equilibrium; it is no float, so no arithmetic yields it.
NoEquilibrium == [n |-> 0, d |-> -1]

\* C1 (as claimed): computing an equilibrium never raises, and with a zero
\* denominator coefficient (k at line 45, a at line 75) the value computed is
\* NoEquilibrium; with k = 0 and c = 2.0 the run is not stopped before the
\* forced-response integration.
C1_EquilibriumFailsSoftly ==
    /\ err # "ZeroDivisionError"
    /\ ("equilibrium" \in bound /\ IsZero(k)) => equilibrium = NoEquilibrium
    /\ ("stable_eq" \in bound /\ IsZero(a)) => stable_eq = NoEquilibrium
    /\ (pc = "raised" /\ "c" \in bound /\ IsZero(k) /\ c = F(2, 1))
           => "y_forced" \in bound

\* C2 (as claimed): a time grid is produced only for a well-formed request
\* (count >= 2 and end > start); a malformed request produces no grid.
WellFormed(r) == r[3] >= 2 /\ r[2] > r[1]

C2_MalformedGridRejected ==
    /\ "t" \in bound => WellFormed(requests.t)
    /\ "t_long" \in bound => WellFormed(requests.t_long)

\* C4: every trajectory an integration returned has one row per point of the
\* time grid it was given, its first row is the initial state it was given,
\* and every row has the dimension of the model (2 for the coupled system, 1
\* for the others); the trajectories the script keeps are as long as the grids
\* they were computed on.
Dim(func) == IF func = "coupled_system" THEN 2 ELSE 1

C4_TrajectoryShape ==
    /\ \A i \in 1..Len(calls) :
          LET cl == calls[i]
          IN  /\ Len(cl.out) = Len(cl.t)
              /\ Len(cl.t) >= 1 => cl.out[1] = cl.y0
              /\ Len(cl.y0) = Dim(cl.func)
              /\ \A j \in 1..Len(cl.out) : Len(cl.out[j]) = Dim(cl.func)
    /\ "y_linear" \in bound => Len(y_linear) = Len(t)
    /\ "y_forced" \in bound => Len(y_forced) = Len(t)
    /\ "solution" \in bound => Len(solution) = Len(t_long)

\* C4 witness: the run with the grids of the source has finished; the six
\* trajectories (Models I, II, three of III, IV) have 100 rows each.
C4_Witness ==
    /\ pc = "done"
    /\ requests = [t |-> <<0, 20, 100>>, t_long |-> <<0, 30, 100>>]
    /\ Len(calls) = 6
    /\ \A i \in 1..6 : Len(calls[i].out) = 100
    /\ calls[4].out[1] = <<F(1, 2)>>
    /\ calls[6].out[1] = <<F(5, 1), F(5, 1)>>

\* C5 (as claimed): once a parameter, an initial condition or a time grid is
\* bound, no later statement changes it.
C5_ParametersNeverChange ==
    [][ /\ "k" \in bound => k' = k
        /\ "y0" \in bound => y0' = y0
        /\ "t" \in bound => t' = t
        /\ "c" \in bound => c' = c
        /\ "y0_forced" \in bound => y0_forced' = y0_forced
        /\ "k_nonlin" \in bound => k_nonlin' = k_nonlin
        /\ "a" \in bound => a' = a
        /\ "y0_values" \in bound => y0_values' = y0_values
        /\ "t_long" \in bound => t_long' = t_long
        /\ "params" \in bound => params' = params
        /\ "initial_state" \in bound => initial_state' = initial_state ]_vars

\* C8 (as claimed): no integration is invoked with a coefficient that is not
\* a finite number.
C8_OnlyFiniteCoefficientsIntegrated ==
    \A i \in 1..Len(calls) :
        \A j \in 1..Len(calls[i].args) : IsFinite(calls[i].args[j])

Scenarios == {"I", "II", "III", "IV"}

\* How many elements of the sequence satisfy the test.
CountEvents(scenario, stage) ==
    Cardinality({i \in 1..Len(events) : events[i] = <<scenario, stage>>})
CountCalls(func) ==
    Cardinality({i \in 1..Len(calls) : calls[i].func = func})

\* C6 (as claimed): within a scenario the stages come in the order parameters,
\* grid, integration, equilibrium, rendering.
ClaimedRank(stage) ==
    CASE stage = "parameters" -> 1
      [] stage = "grid" -> 2
      [] stage = "integration" -> 3
      [] stage = "extract" -> 3
      [] stage = "equilibrium" -> 4
      [] stage = "render" -> 5

CodeRank(stage) ==
    CASE stage = "parameters" -> 1
      [] stage = "grid" -> 2
      [] stage = "equilibrium" -> 3
      [] stage = "integration" -> 4
      [] stage = "extract" -> 5
      [] stage = "render" -> 6

IntegrationsOfCompleteRun ==
    /\ CountCalls("linear_decay") = 1
    /\ CountCalls("forced_response") = 1
    /\ CountCalls("coupled_system") = 1
    /\ CountCalls("nonlinear_regulation") = Len(y0_values)
    /\ Len(y0_values) = 3
    /\ \A i \in 1..Len(y0_values) :
          /\ calls[2 + i].func = "nonlinear_regulation"
          /\ calls[2 + i].y0 = <<y0_values[i]>>
          /\ calls[2 + i].t = t_long

\* C7 (as claimed): in a complete run the integrator is invoked once per
\* parameter set and the equilibrium is computed once for each of the four
\* models.
C7_EquilibriumOncePerModel ==
    pc = "done" =>
        /\ IntegrationsOfCompleteRun
        /\ \A s \in Scenarios : CountEvents(s, "equilibrium") = 1

\* C7 (amended): in a complete run the integrator is invoked once per
\* parameter set, and the equilibrium is computed once for Model II and once
\* for Model III, and not at all for Models I and IV.
C7_InvocationCounts ==
    pc = "done" =>
        /\ IntegrationsOfCompleteRun
        /\ CountEvents("II", "equilibrium") = 1
        /\ CountEvents("III", "equilibrium") = 1
        /\ CountEvents("I", "equilibrium") = 0
        /\ CountEvents("IV", "equilibrium") = 0

\* C7 witness: a complete run with the initial conditions of the source.
C7_Witness ==
    /\ pc = "done"
    /\ Len(calls) = 6
    /\ y0_values = <<F(1, 10), F(1, 2), F(6, 5)>>
    /\ calls[5].y0 = <<F(6, 5)>>

====
